---- MODULE Spec2Model ----
(***************************************************************************)
(* The per-network event listener of backend/app/main.py:                  *)
(* network_validator_listener with its cursor store (load_last_block,      *)
(* save_last_block, reset_last_block) and its launcher                     *)
(* start_network_validator_listener.  One listener thread per network;     *)
(* the cache (cursor store) is shared by all of them.                      *)
(***************************************************************************)
EXTENDS Integers, Sequences, FiniteSets, TLC

(***************************************************************************)
(* Bounds of the model.                                                    *)
(***************************************************************************)
\* Chain heights the provider reports are 100..MaxHeight.
MaxHeight == 101
\* Administrative reset_last_block calls in one behaviour.
MaxResets == 1
\* Process restarts in one behaviour.
MaxRestarts == 1

Heights == 100..MaxHeight

Networks == {"fuji", "sepolia"}

(***************************************************************************)
(* Configuration: config[network]["registry_addresses"], a dict, iterated  *)
(* in insertion order, and the (event_name, handler) list of the loop.     *)
(***************************************************************************)
RegistryNames == <<"ProofRegistry", "ValidatorRegistry", "AssetRegistry">>

EventNames == <<"PostProof">>

(***************************************************************************)
(* The logs on a network's chain, in chain order.  transactionHash is a    *)
(* byte string.                                                            *)
(***************************************************************************)
ChainLogs ==
    << [address |-> "ProofRegistry", event |-> "PostProof", blockNumber |-> 100,
        transactionHash |-> <<171>>, logIndex |-> 2],
       [address |-> "ValidatorRegistry", event |-> "PostProof", blockNumber |-> 100,
        transactionHash |-> <<171>>, logIndex |-> 3],
       [address |-> "ProofRegistry", event |-> "PostProof", blockNumber |-> 101,
        transactionHash |-> <<10>>, logIndex |-> 0],
       [address |-> "AssetRegistry", event |-> "PostProof", blockNumber |-> 101,
        transactionHash |-> <<10>>, logIndex |-> 1] >>

LogSet == {ChainLogs[i] : i \in 1..Len(ChainLogs)}

(***************************************************************************)
(* Conversions.                                                            *)
(***************************************************************************)
Digits == <<"0", "1", "2", "3", "4", "5", "6", "7", "8", "9">>

HexDigits == <<"0", "1", "2", "3", "4", "5", "6", "7", "8", "9",
               "a", "b", "c", "d", "e", "f">>

\* bytes.hex(): two lower-case hex digits per byte.
RECURSIVE Hex(_)
Hex(bs) ==
    IF bs = <<>> THEN <<>>
    ELSE <<HexDigits[(Head(bs) \div 16) + 1], HexDigits[(Head(bs) % 16) + 1]>>
         \o Hex(Tail(bs))

(***************************************************************************)
(* A str held by the cursor store is the sequence of its code points, so   *)
(* that every character int() knows can be written.  ord(c) of the ASCII   *)
(* characters the literals below are written with:                         *)
(***************************************************************************)
Ord(c) ==
    CASE c = "\t" -> 9
      [] c = "\n" -> 10
      [] c = " " -> 32
      [] c = "+" -> 43
      [] c = "-" -> 45
      [] c = "_" -> 95
      [] c = "x" -> 120
      [] OTHER -> 47 + (CHOOSE d \in 1..10 : Digits[d] = c)

\* The str written with the characters of cs.
Text(cs) == [i \in 1..Len(cs) |-> Ord(cs[i])]

(***************************************************************************)
(* A Python int has no width.  It is held as its sign and the decimal      *)
(* digits of its magnitude, most significant first and without leading     *)
(* zeros; 0 is the digit 0 with no sign.  The heights and cursors of the   *)
(* loop stay below 2^31 here and are held as integers of the model: PyInt  *)
(* and IntValue change the representation, not the number.                 *)
(***************************************************************************)
RECURSIVE NatDigits(_)
NatDigits(n) == IF n < 10 THEN <<n>> ELSE NatDigits(n \div 10) \o <<n % 10>>

PyInt(n) == [neg |-> n < 0, digits |-> NatDigits(IF n < 0 THEN 0 - n ELSE n)]

RECURSIVE DigitsValue(_)
DigitsValue(ds) ==
    IF ds = <<>> THEN 0
    ELSE 10 * DigitsValue(SubSeq(ds, 1, Len(ds) - 1)) + ds[Len(ds)]

IntValue(v) == IF v.neg THEN 0 - DigitsValue(v.digits) ELSE DigitsValue(v.digits)

\* sys.get_int_max_str_digits(): int() of a str and str() of an int raise
\* ValueError on more digits.
MaxStrDigits == 4300

\* str(n) raises ValueError: n has more than MaxStrDigits digits.
StrRaises(n) == Len(n.digits) > MaxStrDigits

\* No str: ValueError left str().
ValueError == "ValueError"

\* The decimal digits of a magnitude as characters.
NatStr(digits) == [i \in 1..Len(digits) |-> Ord("0") + digits[i]]

\* A str that drops the sign.
StrUnsigned(n) == IF StrRaises(n) THEN ValueError ELSE NatStr(n.digits)

\* str(n) of an int: decimal digits, "-" first when negative.
Str(n) ==
    IF StrRaises(n) THEN ValueError
    ELSE IF n.neg THEN <<Ord("-")>> \o NatStr(n.digits) ELSE NatStr(n.digits)

\* The code points of the digit zero of every decimal digit block of Unicode
\* (category Nd): int() reads the ten characters from each as 0..9.
DecimalZeros ==
    {48, 1632, 1776, 1984, 2406, 2534, 2662, 2790, 2918, 3046, 3174, 3302,
     3430, 3558, 3664, 3792, 3872, 4160, 4240, 6112, 6160, 6470, 6608, 6784,
     6800, 6992, 7088, 7232, 7248, 42528, 43216, 43264, 43472, 43504, 43600,
     44016, 65296, 66720, 68912, 69734, 69872, 69942, 70096, 70384, 70736,
     70864, 71248, 71360, 71472, 71904, 72016, 72784, 73040, 73120, 92768,
     92864, 93008, 120782, 120792, 120802, 120812, 120822, 123200, 123632,
     125264, 130032}

IsDigit(c) == \E z \in DecimalZeros : z <= c /\ c <= z + 9

DigitVal(c) == c - (CHOOSE z \in DecimalZeros : z <= c /\ c <= z + 9)

\* The digits a run of digit characters stands for, leading zeros dropped.
NatVal(s) ==
    LET ds == [i \in 1..Len(s) |-> DigitVal(s[i])]
    IN  IF \A i \in 1..Len(ds) : ds[i] = 0 THEN <<0>>
        ELSE SubSeq(ds, CHOOSE i \in 1..Len(ds) :
                            ds[i] # 0 /\ \A j \in 1..(i - 1) : ds[j] = 0, Len(ds))

AllDigits(s) == Len(s) > 0 /\ \A i \in 1..Len(s) : IsDigit(s[i])

\* The whitespace int() strips: tab, line feed, vertical tab, form feed,
\* carriage return, space, and the spaces of Unicode.
Whitespace ==
    (9..13) \cup {32, 133, 160, 5760} \cup (8192..8202)
        \cup {8232, 8233, 8239, 8287, 12288}

RECURSIVE LStrip(_)
LStrip(s) == IF s # <<>> /\ Head(s) \in Whitespace THEN LStrip(Tail(s)) ELSE s

RECURSIVE RStrip(_)
RStrip(s) ==
    IF s # <<>> /\ s[Len(s)] \in Whitespace THEN RStrip(SubSeq(s, 1, Len(s) - 1)) ELSE s

\* What int() reads of val: val without its surrounding whitespace.
Strip(s) == RStrip(LStrip(s))

\* The literal after its optional sign.
Unsigned(s) == IF s # <<>> /\ s[1] \in {Ord("-"), Ord("+")} THEN Tail(s) ELSE s

NotUnderscore(c) == c # Ord("_")

\* Decimal digits, with single underscores allowed between two digits.
DigitGroups(s) ==
    /\ AllDigits(SelectSeq(s, NotUnderscore))
    /\ IsDigit(s[1])
    /\ IsDigit(s[Len(s)])
    /\ \A i \in 1..(Len(s) - 1) : ~(s[i] = Ord("_") /\ s[i + 1] = Ord("_"))

\* int(val) succeeds: surrounding whitespace, an optional sign, then at most
\* MaxStrDigits decimal digits with single underscores between them.
IntParses(s) ==
    /\ Len(SelectSeq(Unsigned(Strip(s)), NotUnderscore)) <= MaxStrDigits
    /\ DigitGroups(Unsigned(Strip(s)))

\* int(val) where it succeeds.
IntOf(s) ==
    LET magnitude == NatVal(SelectSeq(Unsigned(Strip(s)), NotUnderscore))
    IN  [neg |-> Strip(s)[1] = Ord("-") /\ magnitude # <<0>>, digits |-> magnitude]

\* A key that leaves the network out.
KeyWithoutNetwork(network) == <<"", "_all_contracts">>

\* last_block_key = f"{network}_all_contracts"
Key(network) == <<network, "_all_contracts">>

Keys == {Key(n) : n \in Networks}

\* cache.get(key) is None
Absent == [present |-> FALSE, val |-> <<>>]

Stored(s) == [present |-> TRUE, val |-> s]

(***************************************************************************)
(* What a call of the provider, the store or the handler does: it returns, *)
(* it raises an Exception, or it raises outside Exception (SystemExit,     *)
(* KeyboardInterrupt, GeneratorExit, asyncio.CancelledError).              *)
(***************************************************************************)
Outcomes == {"returns", "Exception", "BaseException"}

\* except Exception: the clause catches what was raised.
ExceptException(outcome) == outcome = "Exception"

\* What was raised passes every except Exception clause on its way out.
Escapes(outcome) == outcome = "BaseException"

\* The outcomes after which the caller goes on.
Survived == {outcome \in Outcomes : ~Escapes(outcome)}

\* No value: the exception left the function.
Propagated == "raised"

\* A load that falls back to 0, not to the caller's default.
LoadFallsBackToZero(key, default, c, getRaises) ==
    IF Escapes(getRaises) THEN Propagated
    ELSE IF getRaises = "returns" /\ c[key].present /\ IntParses(c[key].val)
    THEN IntOf(c[key].val) ELSE PyInt(0)

(***************************************************************************)
(* load_last_block(key, default, cache).  getRaises: what cache.get did.   *)
(* Propagated: nothing is returned, the exception leaves load_last_block.  *)
(***************************************************************************)
load_last_block(key, default, c, getRaises) ==
    IF Escapes(getRaises) THEN Propagated
    ELSE IF ExceptException(getRaises) THEN default
    ELSE IF c[key].present /\ IntParses(c[key].val) THEN IntOf(c[key].val)
    ELSE default

\* load_last_block returns at line 73: the value comes from the store.
FromStore(key, c, getRaises) ==
    getRaises = "returns" /\ c[key].present /\ IntParses(c[key].val)

\* cache.set(key, str(value)) when it succeeds.
cache_set(c, key, value) == [c EXCEPT ![key] = Stored(Str(value))]

\* What the statement cache.set(key, str(value)) of lines 79 and 86 does:
\* str() raises ValueError before cache.set is called, or cache.set does
\* setRaises.
SetOutcome(value, setRaises) == IF StrRaises(value) THEN "Exception" ELSE setRaises

\* The store after save_last_block(key, block_number, cache): written where
\* line 86 returned, as it was where line 86 raised.
save_last_block(c, key, block_number, setRaises) ==
    IF SetOutcome(block_number, setRaises) = "returns"
    THEN cache_set(c, key, block_number) ELSE c

\* What the call save_last_block(key, block_number, cache) does.  An Exception
\* of line 86 is caught at line 87 and printed at line 88, inside the except
\* block: what that print raises (printRaises) leaves save_last_block, and so
\* does what line 86 raises outside Exception.
SaveRaises(block_number, setRaises, printRaises) ==
    IF SetOutcome(block_number, setRaises) = "returns" THEN "returns"
    ELSE IF Escapes(SetOutcome(block_number, setRaises)) THEN "BaseException"
    ELSE printRaises

\* What line 86 and the print of line 88 do in one call: line 88 runs only
\* where line 86 raised an Exception.
SaveOutcomes ==
    {o \in Outcomes \X Outcomes : ~ExceptException(o[1]) => o[2] = "returns"}

\* The store after reset_last_block(key, new_value, cache): line 79 has no
\* try, what it raises leaves the function and nothing is written.
reset_last_block(c, key, new_value, setRaises) ==
    IF SetOutcome(new_value, setRaises) = "returns"
    THEN cache_set(c, key, new_value) ELSE c

(***************************************************************************)
(* The contracts of the listener: every registry but ValidatorRegistry,    *)
(* paired with the loop's event names, in the order the loops visit them.  *)
(***************************************************************************)
\* A listener that polls every registry of the configuration.
IsPolledAlways(registry_name) == TRUE

IsPolled(registry_name) == registry_name # "ValidatorRegistry"

Contracts == SelectSeq(RegistryNames, IsPolled)

RECURSIVE PairsFrom(_)
PairsFrom(cs) ==
    IF cs = <<>> THEN <<>>
    ELSE [e \in 1..Len(EventNames) |-> <<Head(cs), EventNames[e]>>] \o PairsFrom(Tail(cs))

Pairs == PairsFrom(Contracts)

\* contract.events.<event_name>.get_logs(from_block, to_block) when it succeeds.
get_logs(pair, from_block, to_block) ==
    LET Match(l) == /\ l.address = pair[1]
                    /\ l.event = pair[2]
                    /\ from_block <= l.blockNumber
                    /\ l.blockNumber <= to_block
    IN  SelectSeq(ChainLogs, Match)

\* The event identity of a log, and the key the loop deduplicates on.
Identity(network, ev) == <<network, ev.transactionHash, ev.logIndex>>

dedupe_key(network, ev) == <<network, Hex(ev.transactionHash), ev.logIndex>>

Identities == {Identity(n, l) : n \in Networks, l \in LogSet}

VARIABLES
    config,        \* the networks the supervisor is configured with
    cache,         \* the cursor store: key -> Absent or Stored(string)
    pc,            \* per network: where its listener thread is
    last_block,    \* per network: the in-memory cursor
    current_block, \* per network: the height read at the start of the tick
    seen_logs,     \* per network: the dedup set
    pi,            \* per network: index into Pairs of the pair being swept
    logs,          \* per network: logs of the current fetch not yet visited
    slept,         \* per network: the duration of the last time.sleep
    \* history of the run, kept to state the properties
    invoked,       \* per identity: handler invocations in this run, capped at 2
    tickInvoked,   \* per network: the identities dispatched in this tick
    prevInvoked,   \* per network: those of the previous tick, if it ended in the backoff
    tickStart,     \* per network: last_block when the tick read the height
    tickKind,      \* per network: how the current tick is going / ended
    tickFetched,   \* per network: the get_logs calls issued in this tick
    tickSaved,     \* per network: save_last_block was called in this tick
    prevStart,     \* per network: tickStart of the previous tick
    prevKind,      \* per network: tickKind the previous tick ended with
    pruned,        \* per network: the get_logs calls that reported a pruned range
    lastSave,      \* per network: arguments of the last save_last_block call
    initHeight,    \* per network: until the first tick ends, the height read at
                   \* startup if the key was absent then, else 0
    resets,        \* number of reset_last_block calls so far
    restarts,      \* number of process restarts so far
    saveRaised,    \* per network: what cache.set did in this tick's save_last_block
    raisedFor,     \* per network: the identities whose handler raised in this run
    loaded,        \* per network: the cursor a restarted process read from the
                   \* store at startup, or -1
    beforeRestart, \* the identities dispatched by the process before its restart
    call           \* the last call of the cursor store's interface made directly

loopVars == <<pc, last_block, current_block, seen_logs, pi, logs, slept>>
tickVars == <<tickStart, tickKind, tickFetched, tickSaved, tickInvoked>>
prevVars == <<prevStart, prevKind, prevInvoked>>
histVars == <<invoked, tickVars, prevVars, pruned, lastSave, initHeight>>
ghostVars == <<saveRaised, raisedFor, loaded, beforeRestart, call>>
vars == <<config, cache, loopVars, histVars, resets, restarts, ghostVars>>

NoSave == [key |-> <<>>, value |-> 0 - 1, called |-> FALSE]

\* No call of load_last_block, save_last_block or reset_last_block from outside
\* the loop so far.
NoCall ==
    [op |-> "none", key |-> <<>>, arg |-> PyInt(0), raised |-> "returns",
     failed |-> FALSE, result |-> PyInt(0), before |-> Absent]

\* The state of a process that has just started: no thread launched yet.
Fresh ==
    /\ pc = [n \in Networks |-> "idle"]
    /\ last_block = [n \in Networks |-> 0]
    /\ current_block = [n \in Networks |-> 0]
    /\ seen_logs = [n \in Networks |-> {}]
    /\ pi = [n \in Networks |-> 0]
    /\ logs = [n \in Networks |-> <<>>]
    /\ slept = [n \in Networks |-> 0]
    /\ invoked = [id \in Identities |-> 0]
    /\ tickInvoked = [n \in Networks |-> {}]
    /\ prevInvoked = [n \in Networks |-> {}]
    /\ tickStart = [n \in Networks |-> 0]
    /\ tickKind = [n \in Networks |-> "none"]
    /\ tickFetched = [n \in Networks |-> {}]
    /\ tickSaved = [n \in Networks |-> FALSE]
    /\ prevStart = [n \in Networks |-> 0]
    /\ prevKind = [n \in Networks |-> "none"]
    /\ pruned = [n \in Networks |-> {}]
    /\ lastSave = [n \in Networks |-> NoSave]
    /\ initHeight = [n \in Networks |-> 0]
    /\ saveRaised = [n \in Networks |-> "returns"]
    /\ raisedFor = [n \in Networks |-> {}]
    /\ loaded = [n \in Networks |-> 0 - 1]
    /\ beforeRestart = {}
    /\ call = NoCall

\* What the cursor store may hold under a key before the process starts:
\* nothing, the lowest or the highest height, or no integer.
InitialValues ==
    {Absent, Stored(Str(PyInt(100))), Stored(Str(PyInt(MaxHeight))), Stored(Text(<<"x">>))}

InitWith(nets) ==
    /\ config = nets
    /\ cache \in [Keys -> InitialValues]
    /\ Fresh
    /\ resets = 0
    /\ restarts = 0

Init == InitWith({"fuji"}) /\ cache[Key("sepolia")] = Absent

(***************************************************************************)
(* The decisions of the loop, one operator per line of code.               *)
(***************************************************************************)
\* A startup that takes the height itself as the default.
DefaultCursorIsHeight(height) == height

\* load_last_block's default at startup: w3.eth.block_number - 1
DefaultCursor(height) == height - 1

\* A loop that sweeps also when the height equals the cursor.
ShouldSweepAtCursor(cur, last) == cur >= last

\* if current_block > last_block
ShouldSweep(cur, last) == cur > last

\* A fetch that starts at the cursor itself.
FromBlockAtCursor(last) == last

\* from_block=last_block + 1
FromBlock(last) == last + 1

\* isinstance(err, dict) and err.get("code") == -32000: last_block = current_block
AfterPruned(last, cur) == cur

\* A loop that never finds a key in the dedup set.
IsSeenNever(seen, key) == FALSE

\* if dedupe_key in seen_logs: continue
IsSeen(seen, key) == key \in seen

\* A loop that forgets to add the key.
MarkSeenForgets(seen, key) == seen

\* seen_logs.add(dedupe_key)
MarkSeen(seen, key) == seen \cup {key}

\* A loop that advances the cursor by one block only.
AfterSweepOneBlock(last, cur) == last + 1

\* last_block = current_block, after the sweep
AfterSweep(last, cur) == cur

\* A loop that takes the last log of the list first.
NextEvFromEnd(ls) == ls[Len(ls)]

\* for ev in logs: the log the iteration visits
NextEv(ls) == Head(ls)

\* time.sleep(3) at the end of the try block
SleepInterval == 3

\* time.sleep(5) in the except block
BackoffInterval == 5

\* The pair after pair i of the sweep: the next fetch, or the cursor advance.
NextPairPc(i) == IF i < Len(Pairs) THEN "fetch" ELSE "advance"

Bump(k) == IF k < 2 THEN k + 1 ELSE 2

(***************************************************************************)
(* start_network_validator_listener.  Its caller, the supervisor, is not   *)
(* in main.py: it starts one loop for each configured network, so the      *)
(* function is called once for a network.  The function itself has no      *)
(* guard against a second call.                                            *)
(***************************************************************************)
CalledOnce(n) == n \in config /\ pc[n] = "idle"

\* Line 92 raised: main.py neither defines nor imports network_func, so as the
\* file stands the call is a NameError; a network_func supplied from outside
\* may raise as well, and so may the prints of lines 91 and 97 and the
\* look-ups of lines 94-95.  No thread is created.
StartRaises(n) ==
    /\ CalledOnce(n)
    /\ pc' = [pc EXCEPT ![n] = "unstarted"]
    /\ UNCHANGED <<config, cache, last_block, current_block, seen_logs, pi, logs,
                   slept, histVars, resets, restarts, ghostVars>>

\* A network_func supplied from outside returned: lines 94-103 launch the
\* daemon thread that runs network_validator_listener.
Start(n) ==
    /\ CalledOnce(n)
    /\ pc' = [pc EXCEPT ![n] = "connecting"]
    /\ UNCHANGED <<config, cache, last_block, current_block, seen_logs, pi, logs,
                   slept, histVars, resets, restarts, ghostVars>>

(***************************************************************************)
(* Lines 106-119, before the loop and outside its try: seen_logs = set(),  *)
(* the height query, load_last_block and the contract list.  A height      *)
(* query that raises, or a cache.get that raises outside Exception, leaves *)
(* network_validator_listener before the cursor is loaded: the thread      *)
(* ends.                                                                   *)
(***************************************************************************)
ConnectRaises(n) ==
    /\ pc[n] = "connecting"
    /\ pc' = [pc EXCEPT ![n] = "crashed"]
    /\ seen_logs' = [seen_logs EXCEPT ![n] = {}]
    /\ UNCHANGED <<config, cache, last_block, current_block, pi, logs, slept,
                   histVars, resets, restarts, ghostVars>>

\* Lines 111-119 raised (abi_map[registry_name], w3.eth.contract, the print
\* of line 119), after line 108 has loaded the cursor: outside the try, the
\* thread ends.
ContractsRaise(n) ==
    /\ pc[n] = "connecting"
    /\ \E h \in Heights, getRaises \in Survived :
          last_block' = [last_block EXCEPT ![n] =
                            IntValue(load_last_block(Key(n), PyInt(DefaultCursor(h)),
                                                     cache, getRaises))]
    /\ seen_logs' = [seen_logs EXCEPT ![n] = {}]
    /\ pc' = [pc EXCEPT ![n] = "crashed"]
    /\ UNCHANGED <<config, cache, current_block, pi, logs, slept, histVars, resets,
                   restarts, ghostVars>>

Connect(n) ==
    /\ pc[n] = "connecting"
    /\ \E h \in Heights, getRaises \in Survived :
          /\ last_block' = [last_block EXCEPT ![n] =
                               IntValue(load_last_block(Key(n), PyInt(DefaultCursor(h)),
                                                        cache, getRaises))]
          /\ initHeight' = [initHeight EXCEPT ![n] =
                               IF getRaises = "returns" /\ cache[Key(n)] = Absent THEN h ELSE 0]
          /\ loaded' = [loaded EXCEPT ![n] =
                           IF restarts > 0 /\ FromStore(Key(n), cache, getRaises)
                           THEN IntValue(IntOf(cache[Key(n)].val)) ELSE 0 - 1]
    /\ seen_logs' = [seen_logs EXCEPT ![n] = {}]
    /\ pc' = [pc EXCEPT ![n] = "poll"]
    /\ UNCHANGED <<config, cache, current_block, pi, logs, slept, invoked, tickVars,
                   prevVars, pruned, lastSave, resets, restarts, saveRaised,
                   raisedFor, beforeRestart, call>>

(***************************************************************************)
(* Lines 123-124: the tick reads the height once.                          *)
(***************************************************************************)
\* How a tick is aborted: by the height query, by get_logs, by the handler, or
\* by the print of line 88 or line 138.
AbortKinds == {"height", "provider", "handler", "print"}

\* The tick reads the cursor it starts from.
TickBegins(n) == tickStart' = [tickStart EXCEPT ![n] = last_block[n]]

\* The tick is over: what is kept of it for the next one.
TickEnds(n) ==
    /\ prevKind' = [prevKind EXCEPT ![n] = tickKind[n]]
    /\ prevStart' = [prevStart EXCEPT ![n] =
                        IF tickKind[n] \in AbortKinds THEN tickStart[n] ELSE 0]
    /\ prevInvoked' = [prevInvoked EXCEPT ![n] =
                          IF tickKind[n] \in AbortKinds THEN tickInvoked[n] ELSE {}]
    /\ tickStart' = [tickStart EXCEPT ![n] = 0]
    /\ tickKind' = [tickKind EXCEPT ![n] = "none"]
    /\ tickFetched' = [tickFetched EXCEPT ![n] = {}]
    /\ tickSaved' = [tickSaved EXCEPT ![n] = FALSE]
    /\ tickInvoked' = [tickInvoked EXCEPT ![n] = {}]
    /\ saveRaised' = [saveRaised EXCEPT ![n] = "returns"]
    /\ pi' = [pi EXCEPT ![n] = 0]

\* The thread of n ends: an exception left network_validator_listener.
ThreadEnds(n) == pc' = [pc EXCEPT ![n] = "crashed"]

\* The height query raised outside Exception: line 156 does not catch it.
PollExits(n) ==
    /\ pc[n] = "poll"
    /\ TickBegins(n)
    /\ tickKind' = [tickKind EXCEPT ![n] = "height"]
    /\ ThreadEnds(n)
    /\ UNCHANGED <<config, cache, last_block, current_block, seen_logs, pi, logs,
                   slept, invoked, tickFetched, tickSaved, tickInvoked, prevVars,
                   pruned, lastSave, initHeight, resets, restarts, ghostVars>>

\* The height query raised an Exception: caught by the loop's except.
PollRaises(n) ==
    /\ pc[n] = "poll"
    /\ TickBegins(n)
    /\ tickKind' = [tickKind EXCEPT ![n] = "height"]
    /\ pc' = [pc EXCEPT ![n] = "backoff"]
    /\ UNCHANGED <<config, cache, last_block, current_block, seen_logs, pi, logs,
                   slept, invoked, tickFetched, tickSaved, tickInvoked, prevVars,
                   pruned, lastSave, initHeight, resets, restarts, ghostVars>>

Poll(n) ==
    /\ pc[n] = "poll"
    /\ TickBegins(n)
    /\ \E h \in Heights :
          /\ current_block' = [current_block EXCEPT ![n] = h]
          /\ IF ShouldSweep(h, last_block[n])
             THEN /\ pc' = [pc EXCEPT ![n] = NextPairPc(0)]
                  /\ pi' = [pi EXCEPT ![n] = 1]
                  /\ tickKind' = [tickKind EXCEPT ![n] = "sweep"]
             ELSE /\ pc' = [pc EXCEPT ![n] = "sleep"]
                  /\ pi' = pi
                  /\ tickKind' = [tickKind EXCEPT ![n] = "idle"]
    /\ UNCHANGED <<config, cache, last_block, seen_logs, logs, slept, invoked,
                   tickFetched, tickSaved, tickInvoked, prevVars, pruned, lastSave,
                   initHeight, resets, restarts, ghostVars>>

(***************************************************************************)
(* Lines 130-141: one get_logs call for the pair at pi.                    *)
(***************************************************************************)
Fetched(n) ==
    [pair |-> Pairs[pi[n]], from |-> FromBlock(last_block[n]), to |-> current_block[n]]

IssueFetch(n) == tickFetched' = [tickFetched EXCEPT ![n] = @ \cup {Fetched(n)}]

\* get_logs returned: with no logs the sweep moves to the next pair.
FetchOk(n) ==
    /\ pc[n] = "fetch"
    /\ IssueFetch(n)
    /\ LET result == get_logs(Pairs[pi[n]], FromBlock(last_block[n]), current_block[n])
       IN  /\ logs' = [logs EXCEPT ![n] = result]
           /\ IF result = <<>>
              THEN /\ pc' = [pc EXCEPT ![n] = NextPairPc(pi[n])]
                   /\ pi' = [pi EXCEPT ![n] = @ + 1]
              ELSE /\ pc' = [pc EXCEPT ![n] = "dispatch"]
                   /\ pi' = pi
    /\ UNCHANGED <<config, cache, last_block, current_block, seen_logs, slept, invoked,
                   tickStart, tickKind, tickSaved, tickInvoked, prevVars, pruned,
                   lastSave, initHeight, resets, restarts, ghostVars>>

\* get_logs raised ValueError({"code": -32000, ...}), the pruned range, and the
\* print of line 138 raised: line 139 is not reached and the cursor stays.
FetchPrunedPrints(n) ==
    /\ pc[n] = "fetch"
    /\ IssueFetch(n)
    /\ pruned' = [pruned EXCEPT ![n] = @ \cup {Fetched(n)}]
    /\ tickKind' = [tickKind EXCEPT ![n] = "print"]
    /\ UNCHANGED <<config, cache, last_block, current_block, seen_logs, pi, logs, slept,
                   invoked, tickStart, tickSaved, tickInvoked, prevVars, lastSave,
                   initHeight, resets, restarts, ghostVars>>

\* The print raised an Exception: caught by the loop's except.
FetchPrunedRaises(n) == FetchPrunedPrints(n) /\ pc' = [pc EXCEPT ![n] = "backoff"]

\* The print raised outside Exception: line 156 does not catch it.
FetchPrunedExits(n) == FetchPrunedPrints(n) /\ ThreadEnds(n)

\* get_logs raised ValueError({"code": -32000, ...}), the pruned range, and the
\* print of line 138 returned: last_block = current_block, continue.
FetchPruned(n) ==
    /\ pc[n] = "fetch"
    /\ IssueFetch(n)
    /\ pruned' = [pruned EXCEPT ![n] = @ \cup {Fetched(n)}]
    /\ last_block' = [last_block EXCEPT ![n] = AfterPruned(last_block[n], current_block[n])]
    /\ pc' = [pc EXCEPT ![n] = NextPairPc(pi[n])]
    /\ pi' = [pi EXCEPT ![n] = @ + 1]
    /\ UNCHANGED <<config, cache, current_block, seen_logs, logs, slept, invoked,
                   tickStart, tickKind, tickSaved, tickInvoked, prevVars, lastSave,
                   initHeight, resets, restarts, ghostVars>>

\* get_logs raised outside Exception: it passes lines 135 and 156.
FetchExits(n) ==
    /\ pc[n] = "fetch"
    /\ IssueFetch(n)
    /\ tickKind' = [tickKind EXCEPT ![n] = "provider"]
    /\ ThreadEnds(n)
    /\ UNCHANGED <<config, cache, last_block, current_block, seen_logs, pi, logs, slept,
                   invoked, tickStart, tickSaved, tickInvoked, prevVars, pruned,
                   lastSave, initHeight, resets, restarts, ghostVars>>

\* get_logs raised any other Exception: re-raised, caught by the loop's except.
FetchRaises(n) ==
    /\ pc[n] = "fetch"
    /\ IssueFetch(n)
    /\ pc' = [pc EXCEPT ![n] = "backoff"]
    /\ tickKind' = [tickKind EXCEPT ![n] = "provider"]
    /\ UNCHANGED <<config, cache, last_block, current_block, seen_logs, pi, logs, slept,
                   invoked, tickStart, tickSaved, tickInvoked, prevVars, pruned,
                   lastSave, initHeight, resets, restarts, ghostVars>>

(***************************************************************************)
(* Lines 143-150: one iteration of "for ev in logs".                       *)
(***************************************************************************)
\* After the log at the head of logs: the next log, or the next pair.
LogDone(n) ==
    /\ logs' = [logs EXCEPT ![n] = Tail(@)]
    /\ IF Len(logs[n]) > 1
       THEN pc' = pc /\ pi' = pi
       ELSE /\ pc' = [pc EXCEPT ![n] = NextPairPc(pi[n])]
            /\ pi' = [pi EXCEPT ![n] = @ + 1]

SkipSeen(n) ==
    /\ pc[n] = "dispatch"
    /\ IsSeen(seen_logs[n], dedupe_key(n, NextEv(logs[n])))
    /\ LogDone(n)
    /\ UNCHANGED <<config, cache, last_block, current_block, seen_logs, slept,
                   histVars, resets, restarts, ghostVars>>

\* seen_logs.add(dedupe_key); handler(ev, offchain_db)
Invoke(n) ==
    LET id == Identity(n, NextEv(logs[n]))
    IN  /\ seen_logs' = [seen_logs EXCEPT ![n] = MarkSeen(@, dedupe_key(n, NextEv(logs[n])))]
        /\ invoked' = [invoked EXCEPT ![id] = Bump(@)]
        /\ tickInvoked' = [tickInvoked EXCEPT ![n] = @ \cup {id}]

Dispatch(n) ==
    /\ pc[n] = "dispatch"
    /\ ~IsSeen(seen_logs[n], dedupe_key(n, NextEv(logs[n])))
    /\ Invoke(n)
    /\ LogDone(n)
    /\ UNCHANGED <<config, cache, last_block, current_block, slept, tickStart, tickKind,
                   tickFetched, tickSaved, prevVars, pruned, lastSave, initHeight,
                   resets, restarts, ghostVars>>

\* The handler raised outside Exception: line 156 does not catch it.
HandlerExits(n) ==
    /\ pc[n] = "dispatch"
    /\ ~IsSeen(seen_logs[n], dedupe_key(n, NextEv(logs[n])))
    /\ Invoke(n)
    /\ ThreadEnds(n)
    /\ logs' = [logs EXCEPT ![n] = <<>>]
    /\ tickKind' = [tickKind EXCEPT ![n] = "handler"]
    /\ UNCHANGED <<config, cache, last_block, current_block, pi, slept, tickStart,
                   tickFetched, tickSaved, prevVars, pruned, lastSave, initHeight,
                   resets, restarts, saveRaised, loaded, beforeRestart, call>>

DispatchExits(n) == HandlerExits(n) /\ UNCHANGED raisedFor

\* The same step, with the identity noted whose handler raised.
DispatchExitsNoted(n) ==
    /\ HandlerExits(n)
    /\ raisedFor' = [raisedFor EXCEPT ![n] = @ \cup {Identity(n, NextEv(logs[n]))}]

\* The handler raised an Exception: caught by the loop's except.
HandlerRaises(n) ==
    /\ pc[n] = "dispatch"
    /\ ~IsSeen(seen_logs[n], dedupe_key(n, NextEv(logs[n])))
    /\ Invoke(n)
    /\ pc' = [pc EXCEPT ![n] = "backoff"]
    /\ logs' = [logs EXCEPT ![n] = <<>>]
    /\ tickKind' = [tickKind EXCEPT ![n] = "handler"]
    /\ UNCHANGED <<config, cache, last_block, current_block, pi, slept, tickStart,
                   tickFetched, tickSaved, prevVars, pruned, lastSave, initHeight,
                   resets, restarts, saveRaised, loaded, beforeRestart, call>>

DispatchRaises(n) == HandlerRaises(n) /\ UNCHANGED raisedFor

\* The same step, with the identity noted whose handler raised.
DispatchRaisesNoted(n) ==
    /\ HandlerRaises(n)
    /\ raisedFor' = [raisedFor EXCEPT ![n] = @ \cup {Identity(n, NextEv(logs[n]))}]

(***************************************************************************)
(* Lines 152-153: the cursor advance and save_last_block.                  *)
(***************************************************************************)
\* last_block = current_block; save_last_block(last_block_key, last_block, cache)
Saves(n, setRaises) ==
    /\ last_block' = [last_block EXCEPT ![n] = AfterSweep(last_block[n], current_block[n])]
    /\ cache' = save_last_block(cache, Key(n), PyInt(last_block'[n]), setRaises)
    /\ saveRaised' = [saveRaised EXCEPT ![n] = setRaises]
    /\ lastSave' = [lastSave EXCEPT ![n] =
                       [key |-> Key(n), value |-> last_block'[n], called |-> TRUE]]
    /\ tickSaved' = [tickSaved EXCEPT ![n] = TRUE]

\* The step of lines 152-153 in which the call save_last_block does outcome.
SavesWith(n, outcome) ==
    \E o \in SaveOutcomes :
        /\ SaveRaises(PyInt(current_block[n]), o[1], o[2]) = outcome
        /\ Saves(n, o[1])

\* save_last_block returned: cache.set returned, or raised an Exception that
\* line 87 caught and line 88 printed.
Advance(n) ==
    /\ pc[n] = "advance"
    /\ SavesWith(n, "returns")
    /\ tickKind' = [tickKind EXCEPT ![n] = "clean"]
    /\ pc' = [pc EXCEPT ![n] = "sleep"]
    /\ UNCHANGED <<config, current_block, seen_logs, pi, logs, slept, invoked,
                   tickStart, tickFetched, tickInvoked, prevVars, pruned, initHeight,
                   resets, restarts, raisedFor, loaded, beforeRestart, call>>

\* cache.set raised an Exception and the print of line 88 raised one too: it
\* leaves save_last_block and is caught by the loop's except, with the cursor
\* in memory already advanced.
AdvanceRaises(n) ==
    /\ pc[n] = "advance"
    /\ SavesWith(n, "Exception")
    /\ tickKind' = [tickKind EXCEPT ![n] = "print"]
    /\ pc' = [pc EXCEPT ![n] = "backoff"]
    /\ UNCHANGED <<config, current_block, seen_logs, pi, logs, slept, invoked,
                   tickStart, tickFetched, tickInvoked, prevVars, pruned, initHeight,
                   resets, restarts, raisedFor, loaded, beforeRestart, call>>

\* cache.set, or the print of line 88, raised outside Exception: it passes
\* lines 87 and 156, with the cursor in memory already advanced.
AdvanceExits(n) ==
    /\ pc[n] = "advance"
    /\ SavesWith(n, "BaseException")
    /\ ThreadEnds(n)
    /\ UNCHANGED <<config, current_block, seen_logs, pi, logs, slept, invoked,
                   tickStart, tickKind, tickFetched, tickInvoked, prevVars, pruned,
                   initHeight, resets, restarts, raisedFor, loaded, beforeRestart, call>>

\* Line 155: time.sleep(3), then the next tick.
Sleep(n) ==
    /\ pc[n] = "sleep"
    /\ slept' = [slept EXCEPT ![n] = SleepInterval]
    /\ pc' = [pc EXCEPT ![n] = "poll"]
    /\ initHeight' = [initHeight EXCEPT ![n] = 0]
    /\ TickEnds(n)
    /\ UNCHANGED <<config, cache, last_block, current_block, seen_logs, logs,
                   invoked, pruned, lastSave, resets, restarts, raisedFor, loaded,
                   beforeRestart, call>>

\* Lines 156-157: the print of line 157 raised, inside the except block where
\* nothing catches it: the thread ends before time.sleep(5).
BackoffExits(n) ==
    /\ pc[n] = "backoff"
    /\ ThreadEnds(n)
    /\ UNCHANGED <<config, cache, last_block, current_block, seen_logs, pi, logs, slept,
                   histVars, resets, restarts, ghostVars>>

\* Lines 156-158: except Exception: the print returned, time.sleep(5), then the
\* next tick.
Backoff(n) ==
    /\ pc[n] = "backoff"
    /\ slept' = [slept EXCEPT ![n] = BackoffInterval]
    /\ pc' = [pc EXCEPT ![n] = "poll"]
    /\ initHeight' = [initHeight EXCEPT ![n] = 0]
    /\ TickEnds(n)
    /\ UNCHANGED <<config, cache, last_block, current_block, seen_logs, logs,
                   invoked, pruned, lastSave, resets, restarts, raisedFor, loaded,
                   beforeRestart, call>>

(***************************************************************************)
(* reset_last_block(key, new_value, cache), called by an administrator.    *)
(* A call whose line 79 raises writes nothing and leaves the loop as it    *)
(* was: ResetCallRaises below is that call.                                *)
(***************************************************************************)
ResetValues == {99, MaxHeight}

Reset(n) ==
    /\ resets < MaxResets
    /\ n \in config
    /\ \E v \in ResetValues :
          cache' = reset_last_block(cache, Key(n), PyInt(v), "returns")
    /\ resets' = resets + 1
    /\ UNCHANGED <<config, loopVars, histVars, restarts, ghostVars>>

(***************************************************************************)
(* The process is stopped and started again: the cache keeps its data,     *)
(* everything in memory is lost.                                           *)
(***************************************************************************)
Restart ==
    /\ restarts < MaxRestarts
    /\ \E n \in config : pc[n] # "idle"
    /\ pc' = [n \in Networks |-> "idle"]
    /\ last_block' = [n \in Networks |-> 0]
    /\ current_block' = [n \in Networks |-> 0]
    /\ seen_logs' = [n \in Networks |-> {}]
    /\ pi' = [n \in Networks |-> 0]
    /\ logs' = [n \in Networks |-> <<>>]
    /\ slept' = [n \in Networks |-> 0]
    /\ invoked' = [id \in Identities |-> 0]
    /\ tickStart' = [n \in Networks |-> 0]
    /\ tickKind' = [n \in Networks |-> "none"]
    /\ tickFetched' = [n \in Networks |-> {}]
    /\ tickSaved' = [n \in Networks |-> FALSE]
    /\ tickInvoked' = [n \in Networks |-> {}]
    /\ prevStart' = [n \in Networks |-> 0]
    /\ prevKind' = [n \in Networks |-> "none"]
    /\ prevInvoked' = [n \in Networks |-> {}]
    /\ pruned' = [n \in Networks |-> {}]
    /\ lastSave' = [n \in Networks |-> NoSave]
    /\ initHeight' = [n \in Networks |-> 0]
    /\ saveRaised' = [n \in Networks |-> "returns"]
    /\ raisedFor' = [n \in Networks |-> {}]
    /\ loaded' = [n \in Networks |-> 0 - 1]
    /\ beforeRestart' = {id \in Identities : invoked[id] > 0}
    /\ restarts' = restarts + 1
    /\ UNCHANGED <<config, cache, resets, call>>

Step(n) ==
    \/ StartRaises(n)
    \/ Start(n)
    \/ ConnectRaises(n)
    \/ ContractsRaise(n)
    \/ Connect(n)
    \/ PollExits(n)
    \/ PollRaises(n)
    \/ Poll(n)
    \/ FetchOk(n)
    \/ FetchPruned(n)
    \/ FetchPrunedRaises(n)
    \/ FetchPrunedExits(n)
    \/ FetchExits(n)
    \/ FetchRaises(n)
    \/ SkipSeen(n)
    \/ Dispatch(n)
    \/ DispatchExits(n)
    \/ DispatchRaises(n)
    \/ Advance(n)
    \/ AdvanceRaises(n)
    \/ AdvanceExits(n)
    \/ Sleep(n)
    \/ BackoffExits(n)
    \/ Backoff(n)
    \/ Reset(n)

\* One run of the process.
Next == \E n \in Networks : Step(n)

Spec == Init /\ [][Next]_vars

\* The process with its restarts.
NextRestart == (\E n \in Networks : Step(n)) \/ Restart

SpecRestart == Init /\ [][NextRestart]_vars

(***************************************************************************)
(* What the properties speak of.                                           *)
(***************************************************************************)
PairSet == {Pairs[i] : i \in 1..Len(Pairs)}

\* The identities of the logs a successful get_logs call f returns.
Returned(n, f) ==
    {Identity(n, get_logs(f.pair, f.from, f.to)[i]) :
        i \in 1..Len(get_logs(f.pair, f.from, f.to))}

\* The tick of n has run to its end (the sleep or the backoff is next).
TickOver(n) == pc[n] \in {"sleep", "backoff"}

\* The integer the store holds under n's key, where it holds one.
HoldsInt(c, n) == c[Key(n)].present /\ IntParses(c[Key(n)].val)

StoredInt(c, n) == IntValue(IntOf(c[Key(n)].val))

(***************************************************************************)
(* C1: within one run, the handler is invoked at most once for every       *)
(* event identity (network, transactionHash, logIndex), whatever ticks,    *)
(* overlapping fetch ranges, provider errors and handler failures occur.   *)
(***************************************************************************)
C1_HandlerAtMostOnce == \A id \in Identities : invoked[id] <= 1

\* A clean tick fetched a log again that an earlier tick had dispatched, and
\* skipped it.
C1_Witness ==
    \E n \in config : \E f \in tickFetched[n] \ pruned[n] : \E id \in Returned(n, f) :
        /\ pc[n] = "sleep"
        /\ tickKind[n] = "clean"
        /\ id \notin tickInvoked[n]
        /\ invoked[id] = 1

(***************************************************************************)
(* C2: over every sequence of ticks of one network's loop the cursor is    *)
(* non-decreasing: the in-memory last_block never decreases, every value   *)
(* passed to save_last_block is at least the cursor before it and at least *)
(* the value saved before, and only reset_last_block lowers the integer    *)
(* stored under the network's key: a step that lowers it is a              *)
(* reset_last_block call.                                                  *)
(***************************************************************************)
C2_CursorStep(n) ==
    /\ pc[n] \notin {"idle", "connecting"} => last_block'[n] >= last_block[n]
    /\ lastSave'[n] # lastSave[n] =>
          /\ lastSave'[n].value >= last_block[n]
          /\ lastSave[n].called => lastSave'[n].value >= lastSave[n].value
    /\ (cache'[Key(n)] # cache[Key(n)] /\ HoldsInt(cache, n) /\ HoldsInt(cache', n)
          /\ StoredInt(cache', n) < StoredInt(cache, n))
          => resets' = resets + 1

C2_CursorMonotone == [][\A n \in Networks : C2_CursorStep(n)]_vars

(***************************************************************************)
(* C3: the loop never advances the cursor past a block range it has not    *)
(* attempted to fetch for every contract/event pair: when a tick has moved *)
(* the cursor from c to H, a get_logs call covering blocks c+1..H was      *)
(* issued in that tick for every polled contract and every event type,     *)
(* also in a tick where one contract's fetch reported a pruned range.      *)
(***************************************************************************)
Covers(f, lo, hi) == f.from <= lo /\ hi <= f.to

C3_FetchedBeforeAdvance ==
    \A n \in Networks :
        (TickOver(n) /\ last_block[n] > tickStart[n]) =>
            \A p \in PairSet : \E f \in tickFetched[n] :
                f.pair = p /\ Covers(f, tickStart[n] + 1, last_block[n])

\* The tick of n follows one that ended in the backoff for this reason.
Retrying(n, kind) ==
    /\ prevKind[n] = kind
    /\ pc[n] \in {"fetch", "dispatch", "advance", "backoff"}

(***************************************************************************)
(* C4: when a fetch raises a provider error other than the pruned range    *)
(* mid-sweep, the tick updates the cursor neither in memory nor in the     *)
(* store, and the fetches of the next tick start from the same prior       *)
(* cursor + 1, also when an earlier contract of the tick reported a pruned *)
(* range.                                                                  *)
(***************************************************************************)
C4_ProviderErrorKeepsCursor ==
    \A n \in Networks :
        /\ (pc[n] = "backoff" /\ tickKind[n] = "provider") =>
               last_block[n] = tickStart[n] /\ ~tickSaved[n]
        /\ Retrying(n, "provider") =>
               \A f \in tickFetched[n] : f.from = prevStart[n] + 1

(***************************************************************************)
(* C5: when a handler raises mid-sweep, the cursor keeps the value it had  *)
(* at the start of the tick (no advance, no save) and there is a next      *)
(* tick: the thread does not end.  The cursor is advanced only after a     *)
(* full sweep: while it differs from the cursor of the tick start, every   *)
(* pair has been fetched in the tick and none is still being swept.  Every *)
(* fetch of the next tick starts at the cursor of the failed tick + 1.     *)
(***************************************************************************)
C5_HandlerErrorKeepsCursor ==
    \A n \in Networks :
        /\ tickKind[n] = "handler" =>
               /\ last_block[n] = tickStart[n]
               /\ ~tickSaved[n]
               /\ pc[n] # "crashed"
        /\ (tickKind[n] # "none" /\ last_block[n] # tickStart[n]) =>
               /\ {f.pair : f \in tickFetched[n]} = PairSet
               /\ pc[n] \notin {"fetch", "dispatch"}
        /\ Retrying(n, "handler") =>
               /\ tickStart[n] = prevStart[n]
               /\ \A f \in tickFetched[n] : f.from = prevStart[n] + 1

(***************************************************************************)
(* C6: when a fetch for contract C over [a,b] fails with the pruned-range  *)
(* condition, the loop does not raise and goes on to the next              *)
(* contract/event pair of the same tick, and no fetch for C with that      *)
(* range [a,b] is issued again in the run.                                 *)
(***************************************************************************)
C6_PrunedStep(n) ==
    /\ \A f \in tickFetched'[n] \ tickFetched[n] : f \notin pruned[n]
    /\ pruned'[n] # pruned[n] =>
          /\ pc'[n] = NextPairPc(pi[n])
          /\ pi'[n] = pi[n] + 1
          /\ current_block'[n] = current_block[n]
          /\ tickKind'[n] = "sweep"

C6_PrunedNotRetried == [][\A n \in Networks : C6_PrunedStep(n)]_vars

(***************************************************************************)
(* C7: the listener never terminates on its own: no error, the startup     *)
(* height query and cursor load included, leaves                           *)
(* network_validator_listener; no terminal state is reachable.             *)
(***************************************************************************)
C7_NeverTerminates == \A n \in Networks : pc[n] # "crashed"

(***************************************************************************)
(* C8: an event dispatched in a tick that then aborts with an error at a   *)
(* later contract, and fetched again by the retry tick, is not dispatched  *)
(* again: over the two ticks its handler has fired exactly once.           *)
(***************************************************************************)
C8_RetryDispatchesOnce ==
    \A n \in Networks : \A id \in prevInvoked[n] : invoked[id] = 1

\* The tick before ended in a provider error after dispatching the event; this
\* tick fetched the event again and is through with its sweep.
C8_Witness ==
    \E n \in config : \E id \in prevInvoked[n] : \E f \in tickFetched[n] \ pruned[n] :
        /\ prevKind[n] = "provider"
        /\ pc[n] = "advance"
        /\ id \in Returned(n, f)
        /\ id \notin tickInvoked[n]
        /\ invoked[id] = 1

(***************************************************************************)
(* C9: after a sweep with H > cursor and no unrecovered error, the cursor  *)
(* is exactly the height H read at the start of the tick, the to_block of  *)
(* every fetch of the tick, and H was passed to save_last_block under the  *)
(* network's key.                                                          *)
(***************************************************************************)
C9_CleanSweepSetsCursor ==
    \A n \in Networks :
        (pc[n] = "sleep" /\ tickKind[n] = "clean") =>
            /\ current_block[n] > tickStart[n]
            /\ last_block[n] = current_block[n]
            /\ \A f \in tickFetched[n] : f.to = current_block[n]
            /\ tickSaved[n]
            /\ lastSave[n] = [key |-> Key(n), value |-> current_block[n], called |-> TRUE]

\* From cursor 99 a clean sweep at H = 101.
C9_Witness ==
    \E n \in config :
        /\ pc[n] = "sleep"
        /\ tickKind[n] = "clean"
        /\ tickStart[n] = 99
        /\ current_block[n] = 101
        /\ last_block[n] = 101
        /\ tickFetched[n] \cap pruned[n] = {}

(***************************************************************************)
(* C10, as stated: with no stored cursor and height 100 the initial cursor *)
(* is 99, and after one successful tick with height still 100 the cursor   *)
(* is still 99 and no handler has been invoked.                            *)
(***************************************************************************)
C10_CursorStays ==
    \A n \in Networks :
        initHeight[n] = 100 =>
            /\ pc[n] = "poll" => last_block[n] = 99
            /\ (pc[n] = "sleep" /\ current_block[n] = 100
                  /\ tickFetched[n] \cap pruned[n] = {}) =>
                   last_block[n] = 99 /\ tickInvoked[n] = {}

(***************************************************************************)
(* C10, amended: with no stored cursor and height h at startup the initial *)
(* cursor is h - 1 (99 for 100); a successful first tick with the height   *)
(* still h leaves the cursor at h (100), and where no fetch reported a     *)
(* pruned range it has fetched h..h for every pair and invoked the handler *)
(* for every log returned.                                                 *)
(***************************************************************************)
C10_FirstTickSweeps ==
    \A n \in Networks :
        initHeight[n] # 0 =>
            /\ pc[n] = "poll" => last_block[n] = initHeight[n] - 1
            /\ (pc[n] = "sleep" /\ current_block[n] = initHeight[n]) =>
                   /\ tickKind[n] = "clean"
                   /\ tickStart[n] = initHeight[n] - 1
                   /\ last_block[n] = initHeight[n]
                   /\ tickFetched[n] \cap pruned[n] = {} =>
                          /\ tickFetched[n] =
                                {[pair |-> p, from |-> initHeight[n], to |-> initHeight[n]] :
                                    p \in PairSet}
                          /\ tickInvoked[n] = UNION {Returned(n, f) : f \in tickFetched[n]}

\* No stored cursor, height 100 at startup and in the first tick: the tick has
\* invoked the handler and the cursor is 100.
C10_Witness ==
    \E n \in config :
        /\ initHeight[n] = 100
        /\ pc[n] = "sleep"
        /\ current_block[n] = 100
        /\ last_block[n] = 100
        /\ tickFetched[n] \cap pruned[n] = {}
        /\ tickInvoked[n] # {}

\* The defaults the loop passes to load_last_block at startup.
CursorDefaults == {DefaultCursor(h) : h \in Heights}

(***************************************************************************)
(* What C11 says of the step in which cache.set raises: the tick goes on   *)
(* to the short sleep with the cursor in memory at H and the store as it   *)
(* was; load_last_block on that store returns, for every default, the      *)
(* value stored before or the default, and the value whose save failed     *)
(* only where that was stored before or is the default itself.             *)
(***************************************************************************)
C11_TickKept(n) ==
    /\ pc'[n] = "sleep"
    /\ tickKind'[n] = "clean"
    /\ last_block'[n] = current_block[n]
    /\ cache' = cache
    /\ \A d \in CursorDefaults :
          LET got == IntValue(load_last_block(Key(n), PyInt(d), cache', "returns"))
          IN  /\ got = d \/ (HoldsInt(cache, n) /\ got = StoredInt(cache, n))
              /\ got = current_block[n] =>
                    d = current_block[n]
                    \/ (HoldsInt(cache, n) /\ StoredInt(cache, n) = current_block[n])

\* The next step of the loop after that save is the sleep of 3.
C11_ThenSleeps(n) ==
    /\ pc[n] = "sleep"
    /\ pc'[n] = "poll"
    /\ slept'[n] = 3
    /\ last_block'[n] = last_block[n]

(***************************************************************************)
(* C11: a failing save_last_block never aborts a tick: whenever cache.set  *)
(* raises, no exception surfaces to the loop and the tick completes with   *)
(* the short sleep, the cursor in memory at H and the store as it was.     *)
(***************************************************************************)
C11_SaveStep(n) ==
    /\ (saveRaised[n] = "returns" /\ saveRaised'[n] # "returns") => C11_TickKept(n)
    /\ (saveRaised[n] # "returns" /\ pc'[n] # pc[n]) => C11_ThenSleeps(n)

C11_FailedSaveKeepsTick == [][\A n \in Networks : C11_SaveStep(n)]_vars

(***************************************************************************)
(* The cursor store's interface called directly: load_last_block,          *)
(* save_last_block and reset_last_block on every store content, with no    *)
(* listener running.                                                       *)
(***************************************************************************)
\* Strings with characters outside the ones Ord knows: "\x0b7"; "\x1c7", which
\* str.strip() would strip and int() does not; "100" in Arabic-Indic digits;
\* "12" in fullwidth digits after a no-break space; one digit more than
\* MaxStrDigits.
VerticalTab7 == <<11, 55>>

FileSeparator7 == <<28, 55>>

ArabicIndic100 == <<1633, 1632, 1632>>

NoBreakSpaceFullwidth12 == <<160, 65297, 65298>>

TooManyDigits == [i \in 1..(MaxStrDigits + 1) |-> Ord("1")]

\* The int of MaxStrDigits digits 1, the longest str() writes and int() reads,
\* and the int of one digit more.
MostDigits == [neg |-> FALSE, digits |-> [i \in 1..MaxStrDigits |-> 1]]

OneDigitMore == [neg |-> FALSE, digits |-> [i \in 1..(MaxStrDigits + 1) |-> 1]]

\* What the store may hold under a key: nothing, or any string.
StoreValues ==
    {Absent, Stored(Str(PyInt(100))), Stored(Text(<<"x">>)), Stored(<<>>),
     Stored(Text(<<"-", "7">>)), Stored(Text(<<"+", "7">>)), Stored(Text(<<"1", "x">>)),
     Stored(Text(<<"-">>)), Stored(Text(<<"0", "0", "7">>)), Stored(Text(<<" ", "7">>)),
     Stored(Text(<<"7", " ">>)), Stored(Text(<<"\t", "-", "7", "\n">>)),
     Stored(Text(<<"1", "_", "0">>)), Stored(Text(<<"1", "_">>)),
     Stored(Text(<<"_", "1">>)), Stored(Text(<<"1", "_", "_", "0">>)),
     Stored(Text(<<"-", " ", "7">>)), Stored(Text(<<"1", " ", "0">>)),
     Stored(Text(<<" ">>)), Stored(VerticalTab7), Stored(FileSeparator7),
     Stored(ArabicIndic100), Stored(NoBreakSpaceFullwidth12), Stored(TooManyDigits)}

CallDefaults == {PyInt(0 - 1), PyInt(0), PyInt(99)}

\* The integers passed to save_last_block and reset_last_block: below and at
\* what the store holds, and one that str() refuses.
CallValues == {PyInt(0 - 7), PyInt(0), PyInt(100), OneDigitMore}

\* One key holds any of StoreValues, the others nothing or a height.
InitStore ==
    /\ config = {}
    /\ cache \in [Keys -> StoreValues]
    /\ \E key \in Keys : \A other \in Keys \ {key} :
          cache[other] \in {Absent, Stored(Str(PyInt(100)))}
    /\ Fresh
    /\ resets = 0
    /\ restarts = 0

\* The call of a function of the interface: what the store call inside did,
\* whether the exception left the function, and what the function returned.
LoadCall ==
    /\ \E key \in Keys, default \in CallDefaults, getRaises \in Outcomes :
          call' = [op |-> "load", key |-> key, arg |-> default, raised |-> getRaises,
                   failed |-> Escapes(getRaises),
                   result |-> IF Escapes(getRaises) THEN PyInt(0)
                              ELSE load_last_block(key, default, cache, getRaises),
                   before |-> cache[key]]
    /\ UNCHANGED <<config, cache, loopVars, histVars, resets, restarts, saveRaised,
                   raisedFor, loaded, beforeRestart>>

\* save_last_block called: line 86 did call.raised, and the call failed where
\* an exception left the function.
SaveCall ==
    /\ \E key \in Keys, block_number \in CallValues, o \in SaveOutcomes :
          /\ cache' = save_last_block(cache, key, block_number, o[1])
          /\ call' = [op |-> "save", key |-> key, arg |-> block_number,
                      raised |-> SetOutcome(block_number, o[1]),
                      failed |-> SaveRaises(block_number, o[1], o[2]) # "returns",
                      result |-> PyInt(0), before |-> cache[key]]
    /\ UNCHANGED <<config, loopVars, histVars, resets, restarts, saveRaised,
                   raisedFor, loaded, beforeRestart>>

\* reset_last_block called: line 79 did call.raised.
ResetCalled(setOutcomes) ==
    /\ \E key \in Keys, new_value \in CallValues, setRaises \in Outcomes :
          /\ SetOutcome(new_value, setRaises) \in setOutcomes
          /\ cache' = reset_last_block(cache, key, new_value, setRaises)
          /\ call' = [op |-> "reset", key |-> key, arg |-> new_value,
                      raised |-> SetOutcome(new_value, setRaises),
                      failed |-> SetOutcome(new_value, setRaises) # "returns",
                      result |-> PyInt(0), before |-> cache[key]]
    /\ UNCHANGED <<config, loopVars, histVars, resets, restarts, saveRaised,
                   raisedFor, loaded, beforeRestart>>

ResetCall == ResetCalled({"returns"})

\* str() or cache.set raised in reset_last_block: nothing catches it, nothing
\* is written.
ResetCallRaises == ResetCalled(Outcomes \ {"returns"})

NextStore == LoadCall \/ SaveCall \/ ResetCall \/ ResetCallRaises

SpecStore == InitStore /\ [][NextStore]_vars

\* The integers the strings of the store stand for, written out.
C12_Readable ==
    {<<Text(<<"1", "0", "0">>), PyInt(100)>>, <<Text(<<"-", "7">>), PyInt(0 - 7)>>,
     <<Text(<<"+", "7">>), PyInt(7)>>, <<Text(<<"0", "0", "7">>), PyInt(7)>>,
     <<Text(<<"0">>), PyInt(0)>>, <<Text(<<"4", "2">>), PyInt(42)>>,
     <<Text(<<" ", "7">>), PyInt(7)>>, <<Text(<<"7", " ">>), PyInt(7)>>,
     <<Text(<<"\t", "-", "7", "\n">>), PyInt(0 - 7)>>,
     <<Text(<<"1", "_", "0">>), PyInt(10)>>, <<VerticalTab7, PyInt(7)>>,
     <<ArabicIndic100, PyInt(100)>>, <<NoBreakSpaceFullwidth12, PyInt(12)>>}

\* What C12 says a load returns: the stored integer where the key is present
\* and parsable and cache.get returned, the caller's default otherwise.
C12_Returned ==
    LET v == cache[call'.key]
        readable == {p \in C12_Readable : v.present /\ p[1] = v.val}
    IN  IF call'.raised = "returns" /\ readable # {}
        THEN \A p \in readable : call'.result = p[2]
        ELSE call'.result = call'.arg

(***************************************************************************)
(* C12, as stated: load_last_block never fails and never modifies the      *)
(* store: it returns the stored value as an integer when the key is        *)
(* present and parsable, and the caller's default when the key is absent,  *)
(* the value is unparsable or cache.get raises.                            *)
(***************************************************************************)
C12_LoadStep ==
    (call' # call /\ call'.op = "load") =>
        /\ ~call'.failed
        /\ cache' = cache
        /\ C12_Returned

C12_LoadNeverFails == [][C12_LoadStep]_vars

(***************************************************************************)
(* C12, amended: load_last_block never modifies the store and fails only   *)
(* when cache.get raises outside Exception, which it lets through.  In     *)
(* every other case it returns the stored value as an integer when the key *)
(* is present and parsable (as int() parses: surrounding whitespace, a     *)
(* sign, digits with single underscores between them), and the caller's    *)
(* default when the key is absent, the value is unparsable or cache.get    *)
(* raises an Exception.                                                    *)
(***************************************************************************)
C12_CaughtStep ==
    (call' # call /\ call'.op = "load") =>
        /\ cache' = cache
        /\ call'.failed <=> Escapes(call'.raised)
        /\ ~call'.failed => C12_Returned

C12_LoadFailsOnlyOutsideException == [][C12_CaughtStep]_vars

\* load_last_block was called with default 99 while cache.get raised an
\* Exception over a stored 100, and returned 99.
C12_Witness ==
    /\ call.op = "load"
    /\ ExceptException(call.raised)
    /\ ~call.failed
    /\ call.before = Stored(Str(PyInt(100)))
    /\ call.arg = PyInt(99)
    /\ call.result = PyInt(99)

(***************************************************************************)
(* C17: reset_last_block writes as save_last_block does: for every key and *)
(* integer v, also v below the stored value, after a reset_last_block(key, *)
(* v) that succeeded the store is what a successful save_last_block(key,   *)
(* v) makes it and no other key has changed, and load_last_block(key, d)   *)
(* returns v for every default d after either.  A call succeeded where     *)
(* line 79 or 86 returned: str() did not raise (v has at most MaxStrDigits *)
(* digits) and cache.set returned; with a v of more digits no call         *)
(* succeeds and the store stays as it was.  The longest v that str()       *)
(* writes is read back by int().                                           *)
(***************************************************************************)
C17_LongestReadBack ==
    /\ ~StrRaises(MostDigits)
    /\ IntParses(Str(MostDigits))
    /\ IntOf(Str(MostDigits)) = MostDigits
    /\ StrRaises(OneDigitMore)

C17_WriteStep ==
    /\ (call' # call /\ call'.op \in {"reset", "save"} /\ call'.raised = "returns") =>
          /\ ~call'.failed
          /\ ~StrRaises(call'.arg)
          /\ \A d \in CallDefaults :
                load_last_block(call'.key, d, cache', "returns") = call'.arg
          /\ \A k \in Keys \ {call'.key} : cache'[k] = cache[k]
          /\ call'.op = "reset" =>
                cache' = save_last_block(cache, call'.key, call'.arg, "returns")
    /\ (call' # call /\ call'.op \in {"reset", "save"} /\ StrRaises(call'.arg)) =>
          /\ call'.raised = "Exception"
          /\ cache' = cache
          /\ call'.op = "reset" => call'.failed
    /\ C17_LongestReadBack

C17_ResetWritesAsSave == [][C17_WriteStep]_vars

\* reset_last_block(key, -7) on a key that held 100.
C17_Witness ==
    /\ call.op = "reset"
    /\ call.raised = "returns"
    /\ call.before = Stored(Str(PyInt(100)))
    /\ call.arg = PyInt(0 - 7)
    /\ cache[call.key] = Stored(Text(<<"-", "7">>))

(***************************************************************************)
(* C13: in a tick where the height H read is <= the cursor, the loop       *)
(* issues no fetch, invokes no handler, does not call save_last_block,     *)
(* leaves the cursor and the dedup set unchanged, and goes to the short    *)
(* sleep.                                                                  *)
(***************************************************************************)
C13_IdleStep(n) ==
    /\ (pc[n] = "poll" /\ pc'[n] \notin {"poll", "backoff", "crashed"}
          /\ current_block'[n] <= last_block[n]) =>
          /\ pc'[n] = "sleep"
          /\ tickFetched'[n] = {}
          /\ tickInvoked'[n] = {}
          /\ invoked' = invoked
          /\ ~tickSaved'[n]
          /\ lastSave' = lastSave
          /\ cache' = cache
          /\ last_block'[n] = last_block[n]
          /\ seen_logs'[n] = seen_logs[n]
    /\ (pc[n] = "sleep" /\ current_block[n] <= tickStart[n] /\ pc'[n] # pc[n]) =>
          /\ pc'[n] = "poll"
          /\ slept'[n] = 3
          /\ invoked' = invoked
          /\ lastSave' = lastSave
          /\ cache' = cache
          /\ last_block'[n] = last_block[n]
          /\ seen_logs'[n] = seen_logs[n]

C13_NoNewBlocksNoWork == [][\A n \in Networks : C13_IdleStep(n)]_vars

\* The tick read a height equal to the cursor, with events in the dedup set
\* and a cursor saved by an earlier tick.
C13_Witness ==
    \E n \in config :
        /\ pc[n] = "sleep"
        /\ tickKind[n] = "idle"
        /\ current_block[n] = last_block[n]
        /\ seen_logs[n] # {}
        /\ lastSave[n].called
        /\ tickFetched[n] = {}

(***************************************************************************)
(* Several networks: the supervisor has started a listener thread for      *)
(* every network, all on the one cursor store.  The chain of every network *)
(* stays at the lowest height, so that the threads' interleavings are      *)
(* explored in full.  The store starts empty or with the cursor of one     *)
(* network only; which network that is makes no difference to the code.    *)
(***************************************************************************)
LowestHeight == CHOOSE h \in Heights : \A g \in Heights : h <= g

InitConcurrent ==
    /\ InitWith(Networks)
    /\ cache \in [Keys -> {Absent, Stored(Str(PyInt(LowestHeight)))}]
    /\ cache[Key("sepolia")] = Absent

\* A step of the listener thread of n.
Loop(n) ==
    \/ StartRaises(n)
    \/ Start(n)
    \/ ConnectRaises(n)
    \/ ContractsRaise(n)
    \/ Connect(n)
    \/ PollExits(n)
    \/ PollRaises(n)
    \/ Poll(n)
    \/ FetchOk(n)
    \/ FetchPruned(n)
    \/ FetchPrunedRaises(n)
    \/ FetchPrunedExits(n)
    \/ FetchExits(n)
    \/ FetchRaises(n)
    \/ SkipSeen(n)
    \/ Dispatch(n)
    \/ DispatchExits(n)
    \/ DispatchRaises(n)
    \/ Advance(n)
    \/ AdvanceRaises(n)
    \/ AdvanceExits(n)
    \/ Sleep(n)
    \/ BackoffExits(n)
    \/ Backoff(n)

NextConcurrent ==
    \E n \in Networks :
        /\ Loop(n)
        /\ current_block'[n] <= LowestHeight
        /\ last_block'[n] <= LowestHeight

SpecConcurrent == InitConcurrent /\ [][NextConcurrent]_vars

\* What the thread of n holds and where it is.
Thread(n) ==
    <<pc[n], last_block[n], current_block[n], seen_logs[n], pi[n], logs[n], slept[n]>>

(***************************************************************************)
(* C14: with several network loops running concurrently on the same cursor *)
(* store, each loop reads and writes only its own key and its own dedup    *)
(* set: no step of one network's loop changes another network's stored     *)
(* cursor, in-memory cursor or dedup set, and the cursor a loop starts     *)
(* from is the integer under its own key or its own default.               *)
(***************************************************************************)
C14_LoopStep(n) ==
    /\ Thread(n)' # Thread(n) =>
          \A m \in Networks \ {n} :
              /\ cache'[Key(m)] = cache[Key(m)]
              /\ last_block'[m] = last_block[m]
              /\ seen_logs'[m] = seen_logs[m]
    /\ (pc[n] = "connecting" /\ pc'[n] = "poll") =>
          /\ last_block'[n] \in CursorDefaults
             \/ (HoldsInt(cache, n) /\ last_block'[n] = StoredInt(cache, n))
          /\ initHeight'[n] # 0 => last_block'[n] = initHeight'[n] - 1

C14_LoopsDoNotInterfere == [][\A n \in Networks : C14_LoopStep(n)]_vars

\* Both loops have swept and saved; the save of one network succeeded, that of
\* the other did not, and each has its own dedup set.
C14_Witness ==
    /\ \A n \in Networks : pc[n] = "sleep" /\ lastSave[n].called /\ seen_logs[n] # {}
    /\ cache[Key("fuji")] = Stored(Str(PyInt(100)))
    /\ cache[Key("sepolia")] = Absent
    /\ seen_logs["fuji"] \cap seen_logs["sepolia"] = {}

\* The logs the get_logs call of the pair being swept returned.
CurrentResult(n) == get_logs(Pairs[pi[n]], FromBlock(last_block[n]), current_block[n])

\* The handler is invoked for an event of n in this step.
Dispatched(n) ==
    invoked' # invoked /\ \E id \in Identities : id[1] = n /\ invoked'[id] # invoked[id]

(***************************************************************************)
(* C15: within one loop the ticks are strictly sequential: a tick begins   *)
(* only when nothing of an earlier tick is in progress, and every fetch    *)
(* and dispatch belongs to the one tick in progress.  The first-seen logs  *)
(* one fetch returned are dispatched in the order the provider returned    *)
(* them: the log dispatched is the first of the result not yet visited,    *)
(* every log before it in the result has been dispatched or skipped, and   *)
(* the logs after it are still to come.                                    *)
(***************************************************************************)
C15_Step(n) ==
    /\ (pc[n] = "poll" /\ pc'[n] # "poll") =>
          /\ tickKind[n] = "none"
          /\ tickFetched[n] = {}
          /\ tickInvoked[n] = {}
          /\ logs[n] = <<>>
    /\ (pc[n] \notin {"sleep", "backoff"}
          /\ (tickFetched'[n] # tickFetched[n] \/ Dispatched(n))) =>
          /\ tickKind[n] = "sweep"
          /\ tickStart'[n] = tickStart[n]
          /\ current_block'[n] = current_block[n]
          /\ \A f \in tickFetched'[n] \ tickFetched[n] :
                f.to = current_block[n] /\ f.pair = Pairs[pi[n]]
    /\ Dispatched(n) =>
          LET result == CurrentResult(n)
              k == Len(result) - Len(logs[n]) + 1
          IN  /\ pc[n] = "dispatch"
              /\ k >= 1
              /\ logs[n] = SubSeq(result, k, Len(result))
              /\ invoked'[Identity(n, result[k])] # invoked[Identity(n, result[k])]
              /\ dedupe_key(n, result[k]) \notin seen_logs[n]
              /\ \A j \in 1..(k - 1) : dedupe_key(n, result[j]) \in seen_logs[n]
              /\ logs'[n] \in {SubSeq(result, k + 1, Len(result)), <<>>}

C15_SequentialInOrder == [][\A n \in Networks : C15_Step(n)]_vars

\* A fetch returned two logs, both seen for the first time: the first has been
\* dispatched, the second is next.
C15_Witness ==
    \E n \in config :
        /\ pc[n] = "dispatch"
        /\ Len(CurrentResult(n)) = 2
        /\ logs[n] = <<CurrentResult(n)[2]>>
        /\ Identity(n, CurrentResult(n)[1]) \in tickInvoked[n]
        /\ dedupe_key(n, CurrentResult(n)[2]) \notin seen_logs[n]

(***************************************************************************)
(* The process with its crashes: at any point it is stopped and started    *)
(* again, with the store as the crash left it.                             *)
(***************************************************************************)
NextCrash == (\E n \in Networks : Loop(n)) \/ Restart

SpecCrash == Init /\ [][NextCrash]_vars

\* The block of the log an identity stands for.
BlockOf(id) == (CHOOSE l \in LogSet : Identity(id[1], l) = id).blockNumber

(***************************************************************************)
(* C16: after a restart the dedup set is empty and the cursor is the one   *)
(* read from the store: until the cursor moves, every fetch starts at the  *)
(* persisted cursor + 1, and no log of a block <= the persisted cursor is  *)
(* dispatched by the restarted process, whether or not it was dispatched   *)
(* before the restart.                                                     *)
(***************************************************************************)
C16_CursorGuardsRestart ==
    \A n \in Networks :
        loaded[n] >= 0 =>
            /\ pc[n] = "poll" /\ tickKind[n] = "none" /\ ~lastSave[n].called
                  /\ pruned[n] = {} => last_block[n] = loaded[n]
            /\ (~lastSave[n].called /\ pruned[n] = {}) =>
                  \A f \in tickFetched[n] : f.from = loaded[n] + 1
            /\ \A f \in tickFetched[n] : f.from > loaded[n]
            /\ \A id \in Identities :
                  (id[1] = n /\ invoked[id] > 0) => BlockOf(id) > loaded[n]

\* The process dispatched the log of block 101 in a sweep whose cursor did not
\* reach the store, which still held 100; restarted, it has dispatched the log
\* again.
C16_Witness ==
    \E id \in beforeRestart :
        /\ loaded[id[1]] = 100
        /\ BlockOf(id) = 101
        /\ invoked[id] = 1
        /\ cache[Key(id[1])] = Stored(Str(PyInt(100)))

\* The registries of the configuration.
Registries == {RegistryNames[i] : i \in 1..Len(RegistryNames)}

(***************************************************************************)
(* C18: a registry named ValidatorRegistry is never polled: no fetch of    *)
(* any tick is for the ValidatorRegistry contract and no handler runs for  *)
(* a log of it, while every other registry of the configuration is in the  *)
(* polled contract list and is fetched by every sweep that completes.      *)
(***************************************************************************)
C18_ValidatorRegistryNotPolled ==
    /\ {Contracts[i] : i \in 1..Len(Contracts)} = Registries \ {"ValidatorRegistry"}
    /\ \A n \in Networks :
          /\ \A f \in tickFetched[n] : f.pair[1] # "ValidatorRegistry"
          /\ \A l \in LogSet :
                l.address = "ValidatorRegistry" => invoked[Identity(n, l)] = 0
          /\ (pc[n] = "sleep" /\ tickKind[n] = "clean") =>
                {f.pair[1] : f \in tickFetched[n]} = Registries \ {"ValidatorRegistry"}

\* A clean sweep over block 100, where ValidatorRegistry and ProofRegistry
\* both emitted a log: the handler ran for ProofRegistry's log only.
C18_Witness ==
    \E n \in config :
        /\ pc[n] = "sleep"
        /\ tickKind[n] = "clean"
        /\ tickStart[n] = 99
        /\ tickFetched[n] \cap pruned[n] = {}
        /\ Cardinality(tickFetched[n]) = 2
        /\ \E l \in LogSet :
              /\ l.address = "ProofRegistry"
              /\ l.blockNumber = 100
              /\ invoked[Identity(n, l)] = 1
        /\ \E l \in LogSet :
              /\ l.address = "ValidatorRegistry"
              /\ l.blockNumber = 100
              /\ invoked[Identity(n, l)] = 0

(***************************************************************************)
(* The sleeps of the loop: the short interval after a tick that completed, *)
(* the long one after a tick whose exception line 156 caught, and after    *)
(* either the height is read again.                                        *)
(***************************************************************************)
C19_Sleeps(n) ==
    /\ (pc'[n] = "sleep" /\ pc[n] # "sleep") => tickKind'[n] \in {"clean", "idle"}
    /\ (pc'[n] = "backoff" /\ pc[n] # "backoff") => tickKind'[n] \in AbortKinds
    /\ (pc[n] = "sleep" /\ pc'[n] # pc[n]) =>
          /\ tickKind[n] \in {"clean", "idle"}
          /\ pc'[n] = "poll"
          /\ slept'[n] = 3
    /\ (pc[n] = "backoff" /\ pc'[n] # pc[n]) =>
          /\ tickKind[n] \in AbortKinds
          /\ pc'[n] = "poll"
          /\ slept'[n] = 5
          /\ last_block'[n] = last_block[n]
          /\ seen_logs'[n] = seen_logs[n]
    /\ (pc'[n] = "poll" /\ pc[n] # "poll") => pc[n] \in {"sleep", "backoff", "connecting"}
    /\ slept'[n] # slept[n] => pc[n] \in {"sleep", "backoff"}

\* Where the thread is while a tick is in progress.
TickStates == {"poll", "fetch", "dispatch", "advance"}

(***************************************************************************)
(* C19: every tick ends in exactly one sleep before the next tick: the     *)
(* short interval (3) when the tick completed without an exception, and    *)
(* only the long interval (5) when the tick raised; after the backoff      *)
(* sleep the loop returns unconditionally to polling and reads the chain   *)
(* height again.                                                           *)
(***************************************************************************)
C19_Step(n) ==
    /\ C19_Sleeps(n)
    /\ (pc[n] \in TickStates /\ pc'[n] # pc[n]) =>
          pc'[n] \in TickStates \cup {"sleep", "backoff"}
    /\ (pc[n] = "poll" /\ pc'[n] # pc[n]) =>
          /\ tickKind'[n] \in {"height", "sweep", "idle"}
          /\ tickKind'[n] # "height" => current_block'[n] \in Heights
          /\ slept'[n] = slept[n]

C19_OneSleepPerTick == [][\A n \in Networks : C19_Step(n)]_vars

(***************************************************************************)
(* The loop with the failures of the handler noted: the run of Spec's loop *)
(* in which raisedFor records every identity whose handler raised.         *)
(***************************************************************************)
LoopNoted(n) ==
    \/ StartRaises(n)
    \/ Start(n)
    \/ ConnectRaises(n)
    \/ ContractsRaise(n)
    \/ Connect(n)
    \/ PollExits(n)
    \/ PollRaises(n)
    \/ Poll(n)
    \/ FetchOk(n)
    \/ FetchPruned(n)
    \/ FetchPrunedRaises(n)
    \/ FetchPrunedExits(n)
    \/ FetchExits(n)
    \/ FetchRaises(n)
    \/ SkipSeen(n)
    \/ Dispatch(n)
    \/ DispatchExitsNoted(n)
    \/ DispatchRaisesNoted(n)
    \/ Advance(n)
    \/ AdvanceRaises(n)
    \/ AdvanceExits(n)
    \/ Sleep(n)
    \/ BackoffExits(n)
    \/ Backoff(n)

NextNoted == \E n \in Networks : LoopNoted(n)

SpecNoted == Init /\ [][NextNoted]_vars

\* The log an identity stands for.
LogOf(id) == CHOOSE l \in LogSet : Identity(id[1], l) = id

(***************************************************************************)
(* C20: an event identity is added to the seen set before its handler is   *)
(* invoked, so when the handler for event e raises, e is marked seen; in   *)
(* every later tick of the run that fetches e again the handler is not     *)
(* invoked for e: over the run the handler has been invoked for e exactly  *)
(* once, the time it raised.                                               *)
(***************************************************************************)
C20_RaisedHandlerNotRetried ==
    \A n \in Networks : \A id \in raisedFor[n] :
        /\ dedupe_key(n, LogOf(id)) \in seen_logs[n]
        /\ invoked[id] = 1

\* The handler raised for an event; a later tick fetched the event again,
\* skipped it, completed its sweep and moved the cursor past it.
C20_Witness ==
    \E n \in config : \E id \in raisedFor[n] : \E f \in tickFetched[n] \ pruned[n] :
        /\ pc[n] = "sleep"
        /\ tickKind[n] = "clean"
        /\ id \in Returned(n, f)
        /\ id \notin tickInvoked[n]
        /\ invoked[id] = 1
        /\ last_block[n] >= BlockOf(id)

====
